---- MODULE Spec2Model ----
(***************************************************************************)
(* Model of the streaming JSON parser of package/iot_gw_nxp                *)
(* (src/IotCommon/json.c): a pool of MAXPARSERS parser slots, the          *)
(* character-at-a-time state machine jsonEat, its helpers, the error path  *)
(* and the slot switching functions.                                       *)
(*                                                                         *)
(* Characters are one-character strings, C strings are sequences of        *)
(* characters.  A name/value buffer is kept as the characters that precede *)
(* its first NUL; cells behind the first NUL are never read by the code    *)
(* (every store of a character at position len is followed by a store of   *)
(* NUL at len + 1).  The buffers of a slot are laid out back to back       *)
(* (name[0..4], value[0..4], errbuf), so the NUL stored at index MAXNAME   *)
(* (resp. MAXVALUE) of a full buffer lands in cell 0 of the buffer that    *)
(* follows, and a read of a full buffer runs on into that buffer.  This is *)
(* what the compiled code does at -O0 and at -O2.                          *)
(***************************************************************************)
EXTENDS Integers, Sequences, FiniteSets, TLC

\* ------------------------------------------------------------------
\* Program constants (json.c:66-96)
\* ------------------------------------------------------------------
MAXPARSERS == 2
MAXSTATES == 10
MAXSTACK == 5
MAXERRORBUFFER == 20
MAXNAME == 30
MAXVALUE == 160

STATE_NONE == 0
STATE_INOBJECT == 1
STATE_TONAME == 2
STATE_INNAME == 3
STATE_TOCOLUMN == 4
STATE_TOVALUE == 5
STATE_INSTRING == 6
STATE_INNUM == 7
STATE_INARRAY == 8
STATE_OUTVALUE == 9

ERR_NONE == 0
ERR_DISCARD == 1
ERR_NAMETOOLONG == 2
ERR_VALUETOOLONG == 3
ERR_PARSE_OBJECT == 4
ERR_PARSE_NAME == 5
ERR_PARSE_ILLNAME == 6
ERR_PARSE_ASSIGNMENT == 7
ERR_PARSE_VALUE == 8
ERR_PARSE_ARRAY == 9
ERR_INTERNAL == 10

\* #ifdef GENERATE_ERROR_ON_DISCARD: the macro is commented out (json.c:98)
GENERATE_ERROR_ON_DISCARD == FALSE

\* json_errors[err], indexed from 1 here
json_errors ==
  << "none", "discard", "name too long", "value too long", "parsing object",
     "parsing name", "illegal name char", "parsing assignment",
     "parsing value", "parsing array", "internal error" >>

\* the NUL character and the NULL function pointer
NUL == ""
NULL == "NULL"

CallbackFields ==
  { "onError", "onObjectStart", "onObjectComplete", "onArrayStart",
    "onArrayComplete", "onString", "onInteger" }

\* ------------------------------------------------------------------
\* parser_data_t, parserData[], parser
\* ------------------------------------------------------------------
\* a statically allocated (zero filled) slot
parser_data_t ==
  [ state |-> 0,
    states |-> [i \in 0..(MAXSTATES - 1) |-> 0],
    stateIndex |-> 0,
    allowComma |-> 0,
    isSlash |-> 0,
    stack |-> 0,
    name |-> [i \in 0..(MAXSTACK - 1) |-> << >>],
    value |-> [i \in 0..(MAXSTACK - 1) |-> << >>],
    errbuf |-> [i \in 0..(MAXERRORBUFFER - 1) |-> NUL],
    errbufIndex |-> 0,
    numchars |-> 0,
    onError |-> NULL,
    onObjectStart |-> NULL,
    onObjectComplete |-> NULL,
    onArrayStart |-> NULL,
    onArrayComplete |-> NULL,
    onString |-> NULL,
    onInteger |-> NULL ]

Slots == 0..(MAXPARSERS - 1)

\* The machine threaded through the C functions: the slot pool, the active
\* slot pointer, the callbacks invoked so far and the number of the API call
\* that is executing.
P(m) == m.pd[m.parser]

Put(m, field, v) == [m EXCEPT !.pd[m.parser][field] = v]

\* ------------------------------------------------------------------
\* Buffers
\* ------------------------------------------------------------------
\* the cells of errbuf from cell i up to the first NUL; errbuf ends at offset
\* 1030 of the slot and the int errbufIndex is aligned to 1032, so the two
\* bytes behind errbuf are padding of the zero filled static array
RECURSIVE ReadErrbufFrom(_, _)
ReadErrbufFrom(p, i) ==
  IF i >= MAXERRORBUFFER THEN << >>
  ELSE IF p.errbuf[i] = NUL THEN << >>
  ELSE << p.errbuf[i] >> \o ReadErrbufFrom(p, i + 1)

\* the C string that starts at value[i]
RECURSIVE ReadValue(_, _)
ReadValue(p, i) ==
  IF Len(p.value[i]) < MAXVALUE THEN p.value[i]
  ELSE p.value[i] \o (IF i + 1 < MAXSTACK THEN ReadValue(p, i + 1)
                      ELSE ReadErrbufFrom(p, 0))

\* the C string that starts at name[i]
RECURSIVE ReadName(_, _)
ReadName(p, i) ==
  IF Len(p.name[i]) < MAXNAME THEN p.name[i]
  ELSE p.name[i] \o (IF i + 1 < MAXSTACK THEN ReadName(p, i + 1)
                     ELSE ReadValue(p, 0))

\* name[i][pos] = '\0' for pos in 0..MAXNAME
StoreNameNul(p, i, pos) ==
  IF pos < MAXNAME
    THEN [p EXCEPT !.name[i] = SubSeq(@, 1, pos)]
  ELSE IF i + 1 < MAXSTACK
    THEN [p EXCEPT !.name[i + 1] = << >>]
  ELSE [p EXCEPT !.value[0] = << >>]

\* value[i][pos] = '\0' for pos in 0..MAXVALUE
StoreValueNul(p, i, pos) ==
  IF pos < MAXVALUE
    THEN [p EXCEPT !.value[i] = SubSeq(@, 1, pos)]
  ELSE IF i + 1 < MAXSTACK
    THEN [p EXCEPT !.value[i + 1] = << >>]
  ELSE [p EXCEPT !.errbuf[0] = NUL]

\* ------------------------------------------------------------------
\* Callbacks
\* ------------------------------------------------------------------
Event(m, cb, name, str, num, msg) ==
  [ slot |-> m.parser, cb |-> cb, name |-> name, str |-> str, num |-> num,
    msg |-> msg, at |-> m.at ]

\* A registered function runs on the caller's stack and may use the public
\* interface itself.  Two functions are registered: "cb" records its
\* arguments and returns; "nest" records its arguments and then parses an
\* embedded document on the next slot: jsonSelectNext, jsonReset, a jsonEat
\* for every character, jsonSelectPrev.
RECURSIVE jsonReset(_), jsonEat(_, _), jsonSelectNext(_), jsonSelectPrev(_)

Embedded == << "{", "\"", "b", "\"", ":", "2", "}" >>

RECURSIVE Parse(_, _)
Parse(m, text) ==
  IF text = << >> THEN m ELSE Parse(jsonEat(m, Head(text)), Tail(text))

Nested(m) == jsonSelectPrev(Parse(jsonReset(jsonSelectNext(m)), Embedded))

\* if (parser->field != NULL) parser->field(...)
Invoke(m, field, name, str, num, msg) ==
  IF P(m)[field] # NULL
    THEN LET m1 == [m EXCEPT !.log =
                               Append(@, Event(m, field, name, str, num, msg))]
         IN  IF P(m)[field] = "nest" THEN Nested(m1) ELSE m1
    ELSE m

\* a store to element i of states[MAXSTATES], name[MAXSTACK] or
\* value[MAXSTACK]: an index outside the array is recorded with the callbacks
Indexed(m, array, i, size) ==
  IF i \in 0..(size - 1) THEN m
  ELSE [m EXCEPT !.log = Append(@, Event(m, "outOfRange", << array >>, << >>, i, ""))]

\* ------------------------------------------------------------------
\* Public interface: reset (called by the error path, hence defined first)
\* ------------------------------------------------------------------
\* jsonReset that resets every slot of the pool
jsonReset_all(m) ==
  LET r(p0) ==
        LET p1 == [p0 EXCEPT !.allowComma = 0, !.isSlash = 0,
                             !.state = STATE_NONE, !.stateIndex = 0, !.stack = 0]
            p2 == StoreNameNul(p1, p1.stack, 0)
            p3 == StoreValueNul(p2, p2.stack, 0)
        IN  [p3 EXCEPT !.errbufIndex = 0, !.numchars = 0]
  IN  [m EXCEPT !.pd = [i \in Slots |-> r(m.pd[i])]]

jsonReset(m) ==
  LET p0 == P(m)
      p1 == [p0 EXCEPT !.allowComma = 0, !.isSlash = 0, !.state = STATE_NONE,
                       !.stateIndex = 0, !.stack = 0]
      p2 == StoreNameNul(p1, p1.stack, 0)
      p3 == StoreValueNul(p2, p2.stack, 0)
  IN  [m EXCEPT !.pd[m.parser] = [p3 EXCEPT !.errbufIndex = 0, !.numchars = 0]]

\* ------------------------------------------------------------------
\* Error handling
\* ------------------------------------------------------------------
\* a char array read as a C string: the cells before the first NUL
RECURSIVE CString(_)
CString(cells) ==
  IF cells = << >> THEN << >>
  ELSE IF Head(cells) = NUL THEN << >>
  ELSE << Head(cells) >> \o CString(Tail(cells))

\* locerrbuf[0..len-1] as filled by the copy loop of jsonError
LocErrBuf(p) ==
  LET len == IF p.numchars >= MAXERRORBUFFER THEN MAXERRORBUFFER
             ELSE p.numchars
      start0 == p.errbufIndex - len
      start == IF start0 < 0 THEN start0 + MAXERRORBUFFER ELSE start0
  IN  [i \in 1..len |-> p.errbuf[(start + i - 1) % MAXERRORBUFFER]]

\* the error path without the reset
jsonError_noReset(m, err) ==
  Invoke(m, "onError", << >>, CString(LocErrBuf(P(m))), err,
         json_errors[err + 1])

jsonError(m, err) ==
  LET m1 == Invoke(m, "onError", << >>, CString(LocErrBuf(P(m))), err,
                   json_errors[err + 1])
  IN  jsonReset(m1)

\* ------------------------------------------------------------------
\* Helpers
\* ------------------------------------------------------------------
isWhiteSpace(c) == c \in {" ", "\r", "\n", "\t"}

isSign(c) == c \in {"-", "+"}

isNum(c) == c \in {"0", "1", "2", "3", "4", "5", "6", "7", "8", "9"}

isAlpha(c) ==
  c \in { "a", "b", "c", "d", "e", "f", "g", "h", "i", "j", "k", "l", "m",
          "n", "o", "p", "q", "r", "s", "t", "u", "v", "w", "x", "y", "z",
          "A", "B", "C", "D", "E", "F", "G", "H", "I", "J", "K", "L", "M",
          "N", "O", "P", "Q", "R", "S", "T", "U", "V", "W", "X", "Y", "Z" }

isValidNameChar(c) == isAlpha(c) \/ isNum(c) \/ c = "_" \/ c = "+"

\* appendName with the bound MAXNAME - 1
appendName_short(m, c) ==
  LET p == P(m)
      len == Len(ReadName(p, p.stack))
  IN  IF len < MAXNAME - 1
        THEN LET p1 == [p EXCEPT !.name[p.stack] = Append(@, c)]
             IN  [m EXCEPT !.pd[m.parser] = StoreNameNul(p1, p.stack, len + 1)]
        ELSE jsonError(m, ERR_NAMETOOLONG)

appendName(m, c) ==
  LET p == P(m)
      len == Len(ReadName(p, p.stack))
  IN  IF len < MAXNAME
        THEN LET p1 == [p EXCEPT !.name[p.stack] = Append(@, c)]
             IN  [m EXCEPT !.pd[m.parser] = StoreNameNul(p1, p.stack, len + 1)]
        ELSE jsonError(m, ERR_NAMETOOLONG)

appendValue(m, c) ==
  LET p == P(m)
      len == Len(ReadValue(p, p.stack))
  IN  IF len < MAXVALUE
        THEN LET p1 == [p EXCEPT !.value[p.stack] = Append(@, c)]
             IN  [m EXCEPT !.pd[m.parser] = StoreValueNul(p1, p.stack, len + 1)]
        ELSE jsonError(m, ERR_VALUETOOLONG)

setState(m, st) ==
  LET m1 == Put(m, "state", st)
      p == P(m1)
  IN  CASE st = STATE_INNAME ->
             [Indexed(m1, "name", p.stack, MAXSTACK)
                EXCEPT !.pd[m.parser] = StoreNameNul(p, p.stack, 0)]
        [] st = STATE_TOVALUE ->
             [Indexed(m1, "value", p.stack, MAXSTACK)
                EXCEPT !.pd[m.parser] = StoreValueNul(p, p.stack, 0)]
        [] st \in {STATE_INOBJECT, STATE_INARRAY} ->
             LET m2 == Put(m1, "stack", p.stack + 1)
             IN  IF p.stack + 1 < MAXSTACK
                   THEN [Indexed(m2, "name", p.stack + 1, MAXSTACK)
                           EXCEPT !.pd[m.parser] =
                                    StoreNameNul(P(m2), p.stack + 1, 0)]
                   ELSE jsonError(m2, ERR_INTERNAL)
        [] OTHER -> m1

\* toState that accepts a state-stack depth of MAXSTATES
toState_late(m, st) ==
  LET p == P(m)
      m1 == Put(Indexed(m, "states", p.stateIndex, MAXSTATES),
                "states", [p.states EXCEPT ![p.stateIndex] = p.state])
      m2 == Put(m1, "stateIndex", p.stateIndex + 1)
  IN  IF p.stateIndex + 1 <= MAXSTATES
        THEN setState(m2, st)
        ELSE jsonError(m2, ERR_INTERNAL)

toState(m, st) ==
  LET p == P(m)
      m1 == Put(Indexed(m, "states", p.stateIndex, MAXSTATES),
                "states", [p.states EXCEPT ![p.stateIndex] = p.state])
      m2 == Put(m1, "stateIndex", p.stateIndex + 1)
  IN  IF p.stateIndex + 1 < MAXSTATES
        THEN setState(m2, st)
        ELSE jsonError(m2, ERR_INTERNAL)

upState(m) ==
  LET p == P(m)
  IN  IF p.stateIndex > 0
        THEN LET st == p.states[p.stateIndex - 1]
                 m1 == Put(Put(m, "stateIndex", p.stateIndex - 1), "state", st)
             IN  IF st = STATE_INOBJECT \/ st = STATE_INARRAY
                   THEN IF p.stack > 0
                          THEN Put(Put(m1, "stack", p.stack - 1),
                                   "allowComma", 1)
                          ELSE jsonError(m1, ERR_INTERNAL)
                 ELSE IF st = STATE_NONE
                   THEN [Indexed(m1, "name", p.stack, MAXSTACK)
                           EXCEPT !.pd[m.parser] =
                                    StoreNameNul(P(m1), p.stack, 0)]
                 ELSE m1
        ELSE jsonError(m, ERR_INTERNAL)

\* ------------------------------------------------------------------
\* Atoi (atoi.h): optional sign, then decimal digits
\* ------------------------------------------------------------------
DigitChars == << "0", "1", "2", "3", "4", "5", "6", "7", "8", "9" >>

DigitVal(c) == (CHOOSE i \in 1..10 : DigitChars[i] = c) - 1

RECURSIVE AtoiDigits(_, _)
AtoiDigits(s, acc) ==
  IF s = << >> \/ ~isNum(Head(s)) THEN acc
  ELSE AtoiDigits(Tail(s), 10 * acc + DigitVal(Head(s)))

Atoi(s) ==
  IF s = << >> THEN 0
  ELSE IF Head(s) = "-" THEN 0 - AtoiDigits(Tail(s), 0)
  ELSE IF Head(s) = "+" THEN AtoiDigits(Tail(s), 0)
  ELSE AtoiDigits(s, 0)

\* ------------------------------------------------------------------
\* Eat character
\* ------------------------------------------------------------------
\* the result of one pass through the switch: the machine and `again`
R(m, again) == [m |-> m, again |-> again]

CurName(m) == ReadName(P(m), P(m).stack)

CurValue(m) == ReadValue(P(m), P(m).stack)

\* the switch statement of jsonEatNoLog
Switch(m, c) ==
  LET st == P(m).state
  IN  CASE st = STATE_NONE ->
             IF c = "{"
               THEN LET m1 == Invoke(m, "onObjectStart", CurName(m), << >>, 0, "")
                        m2 == toState(m1, STATE_INOBJECT)
                        m3 == toState(m2, STATE_TONAME)
                    IN  R(Put(m3, "allowComma", 0), 0)
             ELSE IF c = "\""
               THEN R(toState(m, STATE_INNAME), 0)
             ELSE IF ~isWhiteSpace(c)
               THEN IF GENERATE_ERROR_ON_DISCARD
                      THEN R(jsonError(m, ERR_DISCARD), 0)
                      ELSE R(m, 0)
             ELSE R(m, 0)
        [] st = STATE_INOBJECT ->
             IF c = "}"
               THEN LET m1 == Invoke(m, "onObjectComplete", CurName(m), << >>, 0, "")
                    IN  R(upState(m1), 0)
             ELSE IF c = "\""
               THEN R(toState(m, STATE_INNAME), 0)
             ELSE IF c = "," /\ P(m).allowComma # 0
               THEN R(toState(Put(m, "allowComma", 0), STATE_TONAME), 0)
             ELSE IF ~isWhiteSpace(c)
               THEN R(jsonError(m, ERR_PARSE_OBJECT), 0)
             ELSE R(m, 0)
        [] st = STATE_TONAME ->
             IF c = "\""
               THEN R(setState(m, STATE_INNAME), 0)
             ELSE IF ~isWhiteSpace(c)
               THEN R(jsonError(m, ERR_PARSE_NAME), 0)
             ELSE R(m, 0)
        [] st = STATE_INNAME ->
             IF c = "\""
               THEN R(setState(m, STATE_TOCOLUMN), 0)
             ELSE IF isValidNameChar(c)
               THEN R(appendName(m, c), 0)
             ELSE R(jsonError(m, ERR_PARSE_ILLNAME), 0)
        [] st = STATE_TOCOLUMN ->
             IF c = ":"
               THEN R(setState(m, STATE_TOVALUE), 0)
             ELSE IF ~isWhiteSpace(c)
               THEN R(jsonError(m, ERR_PARSE_ASSIGNMENT), 0)
             ELSE R(m, 0)
        [] st = STATE_TOVALUE ->
             IF c = "\""
               THEN R(setState(Put(m, "isSlash", 0), STATE_INSTRING), 0)
             ELSE IF isNum(c) \/ isSign(c)
               THEN R(setState(appendValue(m, c), STATE_INNUM), 0)
             ELSE IF c = "["
               THEN LET m1 == Invoke(m, "onArrayStart", CurName(m), << >>, 0, "")
                        m2 == setState(m1, STATE_INARRAY)
                    IN  R(toState(m2, STATE_TONAME), 0)
             ELSE IF c = "{"
               THEN LET m1 == Invoke(m, "onObjectStart", CurName(m), << >>, 0, "")
                        m2 == setState(m1, STATE_INOBJECT)
                    IN  R(toState(m2, STATE_TONAME), 0)
             ELSE IF ~isWhiteSpace(c)
               THEN R(jsonError(m, ERR_PARSE_VALUE), 0)
             ELSE R(m, 0)
        [] st = STATE_INSTRING ->
             IF P(m).isSlash = 0 /\ c = "\\"
               THEN R(Put(m, "isSlash", 1), 0)
             ELSE IF P(m).isSlash # 0
               THEN LET m1 == Put(m, "isSlash", 0)
                        m2 == appendValue(m1, "\\")
                    IN  R(appendValue(m2, c), 0)
             ELSE IF c = "\""
               THEN LET m1 == Invoke(m, "onString", CurName(m), CurValue(m), 0, "")
                    IN  R(setState(m1, STATE_OUTVALUE), 0)
             ELSE R(appendValue(m, c), 0)
        [] st = STATE_INNUM ->
             IF isNum(c)
               THEN R(appendValue(m, c), 0)
               ELSE LET m1 == Invoke(m, "onInteger", CurName(m), << >>,
                                     Atoi(CurValue(m)), "")
                    IN  R(setState(m1, STATE_OUTVALUE), 1)
        [] st = STATE_INARRAY ->
             IF c = "]"
               THEN LET m1 == Invoke(m, "onArrayComplete", CurName(m), << >>, 0, "")
                    IN  R(upState(m1), 0)
             ELSE IF c = "\""
               THEN R(toState(m, STATE_INNAME), 0)
             ELSE IF c = "," /\ P(m).allowComma # 0
               THEN R(toState(Put(m, "allowComma", 0), STATE_TONAME), 0)
             ELSE IF ~isWhiteSpace(c)
               THEN R(jsonError(m, ERR_PARSE_ARRAY), 0)
             ELSE R(m, 0)
        [] st = STATE_OUTVALUE ->
             IF ~isWhiteSpace(c)
               THEN IF c = ","
                      THEN R(toState(m, STATE_TONAME), 0)
                      ELSE R(upState(m), 1)
               ELSE R(m, 0)
        [] OTHER -> R(m, 0)

\* jsonEatNoLog without the re-dispatch of the character
jsonEatNoLog_once(m, c) == Switch(m, c).m

RECURSIVE jsonEatNoLog(_, _)
jsonEatNoLog(m, c) ==
  LET r == Switch(m, c)
  IN  IF r.again # 0 THEN jsonEatNoLog(r.m, c) ELSE r.m

\* the first part of jsonEat: count the character and log it in errbuf
LogCharacter(m, c) ==
  LET p == P(m)
      m1 == Put(m, "numchars", p.numchars + 1)
  IN  IF ~isWhiteSpace(c)
        THEN LET i == p.errbufIndex
                 m3 == Put(m1, "errbuf", [p.errbuf EXCEPT ![i] = c])
             IN  Put(m3, "errbufIndex",
                     IF i + 1 >= MAXERRORBUFFER THEN 0 ELSE i + 1)
        ELSE m1

\* jsonEat that never dispatches the character a second time
jsonEat_once(m, c) == Switch(LogCharacter(m, c), c).m

jsonEat(m, c) == jsonEatNoLog(LogCharacter(m, c), c)

jsonSetOnError(m, oe) == Put(m, "onError", oe)

jsonSetOnObjectStart(m, oos) == Put(m, "onObjectStart", oos)

jsonSetOnObjectComplete(m, oo) == Put(m, "onObjectComplete", oo)

jsonSetOnArrayStart(m, oas) == Put(m, "onArrayStart", oas)

jsonSetOnArrayComplete(m, oa) == Put(m, "onArrayComplete", oa)

jsonSetOnString(m, os) == Put(m, "onString", os)

\* jsonSetOnInteger that registers the function for string values too
jsonSetOnInteger_both(m, oi) == Put(Put(m, "onInteger", oi), "onString", oi)

jsonSetOnInteger(m, oi) == Put(m, "onInteger", oi)

\* ------------------------------------------------------------------
\* Parser switching
\* ------------------------------------------------------------------
jsonGetSelected(m) ==
  IF \E i \in Slots : m.parser = i
    THEN CHOOSE i \in Slots : m.parser = i
    ELSE 0

\* jsonSelectNext that also resets the slot it selects
jsonSelectNext_reset(m) ==
  LET p == jsonGetSelected(m)
  IN  IF p < MAXPARSERS - 1 THEN jsonReset([m EXCEPT !.parser = p + 1]) ELSE m

jsonSelectNext(m) ==
  LET p == jsonGetSelected(m)
  IN  IF p < MAXPARSERS - 1 THEN [m EXCEPT !.parser = p + 1] ELSE m

\* jsonSelectPrev that wraps around from the first slot to the last
jsonSelectPrev_wrap(m) ==
  LET p == jsonGetSelected(m)
  IN  [m EXCEPT !.parser = IF p > 0 THEN p - 1 ELSE MAXPARSERS - 1]

jsonSelectPrev(m) ==
  LET p == jsonGetSelected(m)
  IN  IF p > 0 THEN [m EXCEPT !.parser = p - 1] ELSE m

\* ------------------------------------------------------------------
\* Documents: values, their text, and the callbacks a whole-document
\* parser reports for them
\* ------------------------------------------------------------------
I(n) == << "int", n >>

S(raw) == << "str", raw >>

O(fields) == << "obj", fields >>

A(elems) == << "arr", elems >>

F(name, v) == << name, v >>

Rep(c, n) == [i \in 1..n |-> c]

RECURSIVE NatChars(_)
NatChars(n) ==
  IF n < 10 THEN << DigitChars[n + 1] >>
  ELSE NatChars(n \div 10) \o << DigitChars[(n % 10) + 1] >>

IntChars(n) == IF n < 0 THEN << "-" >> \o NatChars(0 - n) ELSE NatChars(n)

Quoted(chars) == << "\"" >> \o chars \o << "\"" >>

\* the text of a value, without whitespace
RECURSIVE Ser(_), SerFields(_), SerElems(_)
Ser(v) ==
  CASE v[1] = "int" -> IntChars(v[2])
    [] v[1] = "str" -> Quoted(v[2])
    [] v[1] = "obj" -> << "{" >> \o SerFields(v[2]) \o << "}" >>
    [] v[1] = "arr" -> << "[" >> \o SerElems(v[2]) \o << "]" >>

SerFields(fs) ==
  IF fs = << >> THEN << >>
  ELSE Quoted(fs[1][1]) \o << ":" >> \o Ser(fs[1][2])
       \o (IF Len(fs) > 1 THEN << "," >> \o SerFields(Tail(fs)) ELSE << >>)

SerElems(es) ==
  IF es = << >> THEN << >>
  ELSE Ser(es[1])
       \o (IF Len(es) > 1 THEN << "," >> \o SerElems(Tail(es)) ELSE << >>)

\* a callback with its arguments
Cb(cb, name, str, num) == << cb, name, str, num >>

\* the callbacks of a value that appears under `name`, in document order
RECURSIVE Events(_, _), FieldEvents(_), ElemEvents(_, _)
Events(name, v) ==
  CASE v[1] = "int" -> << Cb("onInteger", name, << >>, v[2]) >>
    [] v[1] = "str" -> << Cb("onString", name, v[2], 0) >>
    [] v[1] = "obj" -> << Cb("onObjectStart", name, << >>, 0) >>
                       \o FieldEvents(v[2])
                       \o << Cb("onObjectComplete", name, << >>, 0) >>
    [] v[1] = "arr" -> << Cb("onArrayStart", name, << >>, 0) >>
                       \o ElemEvents(name, v[2])
                       \o << Cb("onArrayComplete", name, << >>, 0) >>

FieldEvents(fs) ==
  IF fs = << >> THEN << >>
  ELSE Events(fs[1][1], fs[1][2]) \o FieldEvents(Tail(fs))

ElemEvents(name, es) ==
  IF es = << >> THEN << >>
  ELSE Events(name, es[1]) \o ElemEvents(name, Tail(es))

\* nesting depth of a value (a scalar has depth 0)
RECURSIVE Depth(_), MaxDepthOf(_, _)
Depth(v) ==
  CASE v[1] = "obj" -> 1 + MaxDepthOf(v[2], TRUE)
    [] v[1] = "arr" -> 1 + MaxDepthOf(v[2], FALSE)
    [] OTHER -> 0

MaxDepthOf(xs, named) ==
  IF xs = << >> THEN 0
  ELSE LET d == Depth(IF named THEN xs[1][2] ELSE xs[1])
           r == MaxDepthOf(Tail(xs), named)
       IN  IF d > r THEN d ELSE r

\* ------------------------------------------------------------------
\* The callers: bounded sets of documents and of call sequences
\* ------------------------------------------------------------------
\* generated documents have at most MaxNodes values (containers and scalars)
MaxNodes == 3
\* number of arbitrary characters fed after a stem
MaxFree == 2
\* number of tokens in a generated string value
MaxTokens == 3

Names == { << "a" >>, << "b" >> }

Scalars == { I(1), S(<< "x" >>) }

RECURSIVE Trees(_), ObjForests(_), ArrForests(_)
Trees(n) ==
  IF n = 1 THEN Scalars \cup { O(<< >>), A(<< >>) }
  ELSE { O(f) : f \in ObjForests(n - 1) } \cup { A(f) : f \in ArrForests(n - 1) }

ObjForests(k) ==
  IF k = 0 THEN { << >> }
  ELSE UNION { { << F(nm, t) >> \o f :
                   nm \in Names, t \in Trees(j), f \in ObjForests(k - j) } :
               j \in 1..k }

ArrForests(k) ==
  IF k = 0 THEN { << >> }
  ELSE UNION { { << t >> \o f : t \in Trees(j), f \in ArrForests(k - j) } :
               j \in 1..k }

\* every object or array with at most MaxNodes values
GeneratedDocs == { t \in UNION { Trees(n) : n \in 1..MaxNodes } : t[1] \in {"obj", "arr"} }

RECURSIVE Nest(_)
Nest(d) == IF d = 0 THEN I(1) ELSE O(<< F(<< "a" >>, Nest(d - 1)) >>)

Siblings(k) == O([i \in 1..k |-> F(<< "a" >>, I(1))])

NameDoc(n) == O(<< F(Rep("n", n), I(1)) >>)

StrDoc(raw) == O(<< F(<< "a" >>, S(raw)) >>)

\* a string value at nesting depth MAXSTACK - 1
DeepStrDoc(raw) ==
  O(<< F(<< "a" >>, O(<< F(<< "a" >>, O(<< F(<< "a" >>, StrDoc(raw)) >>)) >>)) >>)

Tokens == { << "x" >>, << " " >>, << "\\", "\"" >>, << "\\", "\\" >> }

RECURSIVE TokenStrings(_)
TokenStrings(n) ==
  IF n = 0 THEN { << >> }
  ELSE LET r == TokenStrings(n - 1)
       IN  r \cup { t \o w : t \in Tokens, w \in r }

D_a1 == O(<< F(<< "a" >>, I(1)) >>)

D_b2 == O(<< F(<< "b" >>, I(2)) >>)

D_a123 == O(<< F(<< "a" >>, A(<< I(1), I(2), I(3) >>)) >>)

D_esc == StrDoc(<< "x", "\\", "\"", "y" >>)

D_sib == O(<< F(<< "a" >>, O(<< F(<< "b" >>, O(<< F(<< "c" >>, I(1)) >>)),
                                F(<< "d" >>, I(2)) >>)) >>)

D_after == O(<< F(<< "a" >>, O(<< F(<< "b" >>, I(1)) >>)), F(<< "c" >>, I(2)) >>)

D_name30nested == O(<< F(Rep("n", MAXNAME), O(<< F(<< "b" >>, I(1)) >>)) >>)

SpecialDocs ==
  { D_a1, D_b2, D_a123, D_esc, D_sib, D_after, D_name30nested }
  \cup { Nest(d) : d \in 1..(MAXSTACK + 1) }
  \cup { Siblings(k) : k \in 1..MAXSTATES }
  \cup { NameDoc(n) : n \in (MAXNAME - 1)..(MAXNAME + 1) }
  \cup { StrDoc(w) : w \in TokenStrings(MaxTokens) }
  \cup { StrDoc(Rep("v", n)) : n \in (MAXVALUE - 1)..(MAXVALUE + 1) }
  \cup { StrDoc(Rep("v", MAXVALUE - 2) \o << "\\", "\"" >>),
         StrDoc(Rep("v", MAXVALUE - 1) \o << "\\", "\"" >>) }
  \cup { DeepStrDoc(Rep("v", MAXVALUE)),
         DeepStrDoc(Rep("v", MAXVALUE - 1) \o << " " >>) }

Docs == GeneratedDocs \cup SpecialDocs

\* texts the parser is driven through before arbitrary characters follow
StemTexts ==
  { Ser(O(<< F(<< "a" >>, I(1)), F(<< "b" >>, S(<< "x", "\\", "\"", "y" >>)) >>)),
    Ser(Nest(2)),
    << "{", "\"", "a", "\"", ":", "[", "\"", "x", "\"", ":", "{", "\"", "y",
       "\"", ":", "1", "}", "]", "}" >>,
    << "\"", "a", "\"", ":", "1" >> }

PrefixesOf(s) == { SubSeq(s, 1, k) : k \in 0..Len(s) }

Stems == UNION { PrefixesOf(t) : t \in StemTexts }

Alphabet == { "{", "}", "[", "]", "\"", ":", ",", "a", "1", "-", "+", " ", "\\" }

DocTextPrefixes == UNION { PrefixesOf(Ser(d)) : d \in Docs }

\* a stem followed by at most MaxFree characters of Alphabet
InStemFamily(x) ==
  \E k \in 0..MaxFree :
    /\ k <= Len(x)
    /\ SubSeq(x, 1, Len(x) - k) \in Stems
    /\ \A j \in (Len(x) - k + 1)..Len(x) : x[j] \in Alphabet

\* the texts fed to a slot, and their prefixes
InTexts(x) == x \in DocTextPrefixes \/ InStemFamily(x)

\* API calls
Eat(c) == << "jsonEat", c >>

Reset == << "jsonReset", "" >>

SelNext == << "jsonSelectNext", "" >>

SelPrev == << "jsonSelectPrev", "" >>

Feed(text) == [i \in 1..Len(text) |-> Eat(text[i])]

\* register a function for each of the seven callbacks of the active slot
Setup ==
  << << "jsonSetOnError", "cb" >>, << "jsonSetOnObjectStart", "cb" >>,
     << "jsonSetOnObjectComplete", "cb" >>, << "jsonSetOnArrayStart", "cb" >>,
     << "jsonSetOnArrayComplete", "cb" >>, << "jsonSetOnString", "cb" >>,
     << "jsonSetOnInteger", "cb" >> >>

T_a1 == Ser(D_a1)

T_b2 == Ser(D_b2)

\* a document on slot 0, interrupted at any point by a document on slot 1
TwoSlotScripts ==
  { Setup \o << SelNext >> \o Setup \o << SelPrev >> \o Feed(SubSeq(t0, 1, k))
      \o << SelNext >> \o Feed(t1) \o << SelPrev >>
      \o Feed(SubSeq(t0, k + 1, Len(t0))) :
    t0 \in {T_a1}, k \in 0..Len(T_a1),
    t1 \in { T_b2, Ser(D_esc), Ser(Nest(MAXSTACK)), << "{", "\"", "b", "\"", ":", "}" >> } }
  \cup
  { Setup \o << SelNext >> \o Setup \o Feed(SubSeq(T_b2, 1, j)) \o << SelPrev >>
      \o Feed(T_a1) \o << SelNext >> \o Feed(SubSeq(T_b2, j + 1, Len(T_b2)))
      \o << SelPrev >> :
    j \in 0..Len(T_b2) }

\* resets, select calls at the ends of the pool, missing and removed callbacks
OtherScripts ==
  { Setup \o Feed(SubSeq(t, 1, k)) \o << Reset >> \o Feed(T_a1) :
      t \in { T_a1, Ser(D_esc), Ser(Nest(MAXSTACK)) }, k \in 0..7 }
  \cup { << SelPrev, SelNext, SelNext >> \o Setup \o Feed(T_b2) \o << Reset, SelPrev, SelPrev >>,
         Feed(T_a1),
         << << "jsonSetOnError", "cb" >> >> \o Feed(Ser(O(<< >>))),
         Setup \o << << "jsonSetOnInteger", NULL >>, << "jsonSetOnError", NULL >>,
                     << "jsonSetOnObjectStart", NULL >>, << "jsonSetOnObjectComplete", NULL >>,
                     << "jsonSetOnArrayStart", NULL >>, << "jsonSetOnArrayComplete", NULL >>,
                     << "jsonSetOnString", NULL >> >> \o Feed(T_a1) }

\* the empty object with a blank between its braces
T_blank == << "{", " ", "}" >>

\* histories of MAXERRORBUFFER characters or more (complete, incomplete,
\* ending in an error), a jsonReset call, then a document
HistoryScripts ==
  { Setup \o Feed(h) \o << Reset >> \o Feed(w) :
      h \in { Ser(Nest(MAXSTACK - 1)),
              SubSeq(Ser(Nest(MAXSTACK - 1)), 1, MAXERRORBUFFER + 1),
              SubSeq(Ser(Nest(MAXSTACK - 1)), 1, MAXERRORBUFFER) \o << "}" >> },
      w \in { T_a1, T_blank } }

\* Setup with the k-th registration made for the function "nest"
SetupNest(k) == [Setup EXCEPT ![k] = << Setup[k][1], "nest" >>]

\* one callback of slot 0 parses the embedded document on slot 1
NestScripts ==
  { SetupNest(k) \o << SelNext >> \o Setup \o << SelPrev >> \o Feed(t) :
      k \in 1..Len(Setup),
      t \in { T_a1, Ser(D_esc), Ser(D_a123), Ser(Nest(2)), Ser(Nest(MAXSTACK)),
              << "{", "\"", "a", "\"", ":", "}" >> } }

\* {"a":} : a syntax error at the closing brace
T_novalue == << "{", "\"", "a", "\"", ":", "}" >>

\* a document after an error, and a registration in the middle of a document
RegistrationScripts ==
  { Setup \o Feed(T_novalue) \o Feed(T_a1),
    Setup \o Feed(SubSeq(T_a1, 1, 5))
          \o << << "jsonSetOnInteger", NULL >>, << "jsonSetOnInteger", "cb" >>,
                << "jsonSetOnError", "cb" >> >>
          \o Feed(SubSeq(T_a1, 6, Len(T_a1))) }

Scripts ==
  TwoSlotScripts \cup OtherScripts \cup HistoryScripts \cup NestScripts
  \cup RegistrationScripts

ScriptPrefixes == UNION { PrefixesOf(s) : s \in Scripts }

\* the call sequences explored: Setup and one text on slot 0, or a prefix of
\* a script
InScripts(cs) ==
  \/ cs \in ScriptPrefixes
  \/ /\ Len(cs) > Len(Setup)
     /\ SubSeq(cs, 1, Len(Setup)) = Setup
     /\ \A i \in (Len(Setup) + 1)..Len(cs) : cs[i][1] = "jsonEat"
     /\ InTexts([i \in 1..(Len(cs) - Len(Setup)) |-> cs[Len(Setup) + i][2]])

Functions == { NULL, "cb", "nest" }

Chars ==
  Alphabet \cup { "\t", "\r", "\n", "_", "b", "c", "d", "n", "v", "x", "y", "z",
                  "0", "2", "3", "9" }

\* ------------------------------------------------------------------
\* State
\* ------------------------------------------------------------------
VARIABLES
  parserData,   \* static parser_data_t parserData[MAXPARSERS]
  parser,       \* static parser_data_t * parser, as an index into parserData
  log,          \* the callback invocations so far
  calls,        \* the API calls so far
  fed,          \* per slot: the characters fed since the last jsonReset call
  mark          \* per slot: Len(log) at the last jsonReset call

vars == << parserData, parser, log, calls, fed, mark >>

Init ==
  /\ parserData = [i \in Slots |-> parser_data_t]
  /\ parser = 0
  /\ log = << >>
  /\ calls = << >>
  /\ fed = [i \in Slots |-> << >>]
  /\ mark = [i \in Slots |-> 0]

Machine == [pd |-> parserData, parser |-> parser, log |-> log, at |-> Len(calls) + 1]

InScope(call) == InScripts(Append(calls, call))

Commit(m, call) ==
  /\ parserData' = m.pd
  /\ parser' = m.parser
  /\ log' = m.log
  /\ calls' = Append(calls, call)

Call_jsonEat(c) ==
  /\ InScope(Eat(c))
  /\ Commit(jsonEat(Machine, c), Eat(c))
  /\ fed' = [fed EXCEPT ![parser] = Append(@, c)]
  /\ UNCHANGED mark

Call_jsonReset ==
  /\ InScope(Reset)
  /\ Commit(jsonReset(Machine), Reset)
  /\ fed' = [fed EXCEPT ![parser] = << >>]
  /\ mark' = [mark EXCEPT ![parser] = Len(log)]

Call_jsonSelectNext ==
  /\ InScope(SelNext)
  /\ Commit(jsonSelectNext(Machine), SelNext)
  /\ UNCHANGED << fed, mark >>

Call_jsonSelectPrev ==
  /\ InScope(SelPrev)
  /\ Commit(jsonSelectPrev(Machine), SelPrev)
  /\ UNCHANGED << fed, mark >>

Call_jsonSetOnError(f) ==
  /\ InScope(<< "jsonSetOnError", f >>)
  /\ Commit(jsonSetOnError(Machine, f), << "jsonSetOnError", f >>)
  /\ UNCHANGED << fed, mark >>

Call_jsonSetOnObjectStart(f) ==
  /\ InScope(<< "jsonSetOnObjectStart", f >>)
  /\ Commit(jsonSetOnObjectStart(Machine, f), << "jsonSetOnObjectStart", f >>)
  /\ UNCHANGED << fed, mark >>

Call_jsonSetOnObjectComplete(f) ==
  /\ InScope(<< "jsonSetOnObjectComplete", f >>)
  /\ Commit(jsonSetOnObjectComplete(Machine, f), << "jsonSetOnObjectComplete", f >>)
  /\ UNCHANGED << fed, mark >>

Call_jsonSetOnArrayStart(f) ==
  /\ InScope(<< "jsonSetOnArrayStart", f >>)
  /\ Commit(jsonSetOnArrayStart(Machine, f), << "jsonSetOnArrayStart", f >>)
  /\ UNCHANGED << fed, mark >>

Call_jsonSetOnArrayComplete(f) ==
  /\ InScope(<< "jsonSetOnArrayComplete", f >>)
  /\ Commit(jsonSetOnArrayComplete(Machine, f), << "jsonSetOnArrayComplete", f >>)
  /\ UNCHANGED << fed, mark >>

Call_jsonSetOnString(f) ==
  /\ InScope(<< "jsonSetOnString", f >>)
  /\ Commit(jsonSetOnString(Machine, f), << "jsonSetOnString", f >>)
  /\ UNCHANGED << fed, mark >>

Call_jsonSetOnInteger(f) ==
  /\ InScope(<< "jsonSetOnInteger", f >>)
  /\ Commit(jsonSetOnInteger(Machine, f), << "jsonSetOnInteger", f >>)
  /\ UNCHANGED << fed, mark >>

Next ==
  \/ \E c \in Chars : Call_jsonEat(c)
  \/ Call_jsonReset
  \/ Call_jsonSelectNext
  \/ Call_jsonSelectPrev
  \/ \E f \in Functions : Call_jsonSetOnError(f)
  \/ \E f \in Functions : Call_jsonSetOnObjectStart(f)
  \/ \E f \in Functions : Call_jsonSetOnObjectComplete(f)
  \/ \E f \in Functions : Call_jsonSetOnArrayStart(f)
  \/ \E f \in Functions : Call_jsonSetOnArrayComplete(f)
  \/ \E f \in Functions : Call_jsonSetOnString(f)
  \/ \E f \in Functions : Call_jsonSetOnInteger(f)

Spec == Init /\ [][Next]_vars

\* ------------------------------------------------------------------
\* Vocabulary of the properties
\* ------------------------------------------------------------------
LastCall == calls[Len(calls)]

AllRegistered(i) == \A f \in CallbackFields : parserData[i][f] # NULL

\* the reset baseline: Idle, both stacks empty
Idle(i) ==
  /\ parserData[i].state = STATE_NONE
  /\ parserData[i].stateIndex = 0
  /\ parserData[i].stack = 0

\* the callbacks of slot i since its last jsonReset call
SinceMark(i) ==
  SelectSeq(SubSeq(log, mark[i] + 1, Len(log)), LAMBDA e : e.slot = i)

EvOf(e) == Cb(e.cb, e.name, e.str, e.num)

Seen(i) == [k \in 1..Len(SinceMark(i)) |-> EvOf(SinceMark(i)[k])]

\* a document with the callbacks a whole-document parser reports for it
Expect(d) == << Ser(d), Events(<< >>, d) >>

\* ------------------------------------------------------------------
\* C1
\* ------------------------------------------------------------------
C1_Docs ==
  { d \in GeneratedDocs : d[1] = "obj" }
  \cup { D_a1, D_b2, D_a123, D_esc, D_sib, D_after }
  \cup { Siblings(k) : k \in 1..MAXSTATES }
  \cup { Nest(d) : d \in 1..(MAXSTACK - 1) }

C1_Expected == { Expect(d) : d \in C1_Docs }

\* C1: a well-formed document of objects, arrays, strings and integers fed
\* character by character to a fresh slot yields exactly the callbacks of a
\* whole-document parser, in document order, and no error callback.
C1_MatchesReferenceParser ==
  \A i \in Slots :
    AllRegistered(i) =>
      \A x \in C1_Expected : fed[i] = x[1] => Seen(i) = x[2]

\* ------------------------------------------------------------------
\* C2
\* ------------------------------------------------------------------
\* C2: {"a":[1,2,3]} yields object-start(""), array-start("a"),
\* integer-value("a",1), ("a",2), ("a",3), array-complete("a"),
\* object-complete("") and no error callback.
C2_ArrayOfIntegers ==
  \A i \in Slots :
    (AllRegistered(i) /\ fed[i] = Ser(D_a123)) =>
      Seen(i) = << Cb("onObjectStart", << >>, << >>, 0),
                   Cb("onArrayStart", << "a" >>, << >>, 0),
                   Cb("onInteger", << "a" >>, << >>, 1),
                   Cb("onInteger", << "a" >>, << >>, 2),
                   Cb("onInteger", << "a" >>, << >>, 3),
                   Cb("onArrayComplete", << "a" >>, << >>, 0),
                   Cb("onObjectComplete", << >>, << >>, 0) >>

\* ------------------------------------------------------------------
\* C3
\* ------------------------------------------------------------------
\* C3: {"a":1} yields object-start(""), integer-value("a",1),
\* object-complete("") in that order; the integer and the object-complete
\* callback both fire during the feed of '}', none of them before it, and the
\* slot ends Idle with both stacks empty.
C3_IntegerThenObjectComplete ==
  \A i \in Slots :
    AllRegistered(i) =>
      /\ fed[i] = SubSeq(T_a1, 1, Len(T_a1) - 1) =>
           /\ Seen(i) = << Cb("onObjectStart", << >>, << >>, 0) >>
           /\ parserData[i].state = STATE_INNUM
      /\ fed[i] = T_a1 =>
           /\ Seen(i) = << Cb("onObjectStart", << >>, << >>, 0),
                           Cb("onInteger", << "a" >>, << >>, 1),
                           Cb("onObjectComplete", << >>, << >>, 0) >>
           /\ SinceMark(i)[2].at = SinceMark(i)[3].at
           /\ calls[SinceMark(i)[3].at] = Eat("}")
           /\ SinceMark(i)[1].at < SinceMark(i)[2].at
           /\ Idle(i)

C3_Witness ==
  /\ calls = Setup \o Feed(T_a1)
  /\ Len(log) = 3
  /\ log[3].cb = "onObjectComplete"
  /\ log[3].at = Len(calls)

\* ------------------------------------------------------------------
\* C4
\* ------------------------------------------------------------------
C4_Raw ==
  TokenStrings(MaxTokens)
  \cup { Rep("v", MAXVALUE - 1), Rep("v", MAXVALUE),
         Rep("v", MAXVALUE - 1) \o << " " >>,
         Rep("v", MAXVALUE - 2) \o << "\\", "\"" >> }

C4_Expected ==
  { Expect(StrDoc(w)) : w \in C4_Raw } \cup { Expect(DeepStrDoc(w)) : w \in C4_Raw }

\* C4: a string value of at most MAXVALUE characters is delivered to the
\* string-value callback exactly as the raw characters between its quotes,
\* escape pairs unchanged; an escaped quote does not end the string.
C4_StringDeliveredRaw ==
  \A i \in Slots :
    AllRegistered(i) =>
      \A x \in C4_Expected : fed[i] = x[1] => Seen(i) = x[2]

\* ------------------------------------------------------------------
\* C5
\* ------------------------------------------------------------------
\* C5: whenever a jsonEat call invoked the error callback, the slot is in the
\* reset baseline (Idle, state-stack depth 0, name/value-stack depth 0) when
\* that call returns.
C5_ErrorLeavesSlotIdle ==
  (calls # << >> /\ LastCall[1] = "jsonEat") =>
    \A k \in DOMAIN log :
      (log[k].cb = "onError" /\ log[k].at = Len(calls)) => Idle(log[k].slot)

\* ------------------------------------------------------------------
\* C6
\* ------------------------------------------------------------------
\* the states that reject characters with a code of their own
C6_Code(st) ==
  CASE st = STATE_INOBJECT -> ERR_PARSE_OBJECT
    [] st = STATE_TONAME -> ERR_PARSE_NAME
    [] st = STATE_INNAME -> ERR_PARSE_ILLNAME
    [] st = STATE_TOCOLUMN -> ERR_PARSE_ASSIGNMENT
    [] st = STATE_TOVALUE -> ERR_PARSE_VALUE
    [] st = STATE_INARRAY -> ERR_PARSE_ARRAY
    [] OTHER -> ERR_NONE

C6_White == { " ", "\t", "\r", "\n" }

\* character c is not accepted in the state of slot record p
C6_Rejected(p, c) ==
  CASE p.state = STATE_INOBJECT ->
         /\ c \notin {"}", "\""} \cup C6_White
         /\ ~(c = "," /\ p.allowComma # 0)
    [] p.state = STATE_TONAME -> c \notin {"\""} \cup C6_White
    [] p.state = STATE_INNAME ->
         c # "\"" /\ ~isAlpha(c) /\ ~isNum(c) /\ c \notin {"_", "+"}
    [] p.state = STATE_TOCOLUMN -> c \notin {":"} \cup C6_White
    [] p.state = STATE_TOVALUE ->
         c \notin {"\"", "[", "{", "-", "+"} \cup C6_White /\ ~isNum(c)
    [] p.state = STATE_INARRAY ->
         /\ c \notin {"]", "\""} \cup C6_White
         /\ ~(c = "," /\ p.allowComma # 0)
    [] OTHER -> FALSE

C6_Step ==
  \A c \in Chars :
    ( /\ calls' = Append(calls, Eat(c))
      /\ parserData[parser].onError = "cb"
      /\ C6_Rejected(parserData[parser], c) )
    => /\ Len(log') = Len(log) + 1
       /\ SubSeq(log', 1, Len(log)) = log
       /\ log'[Len(log')].cb = "onError"
       /\ log'[Len(log')].num = C6_Code(parserData[parser].state)
       /\ log'[Len(log')].slot = parser
       /\ parserData'[parser].state = STATE_NONE
       /\ parserData'[parser].stateIndex = 0
       /\ parserData'[parser].stack = 0

\* C6: a character the current state does not accept produces exactly one
\* error callback, with the code of that state (InObject 4, ExpectName 5,
\* InName 6, ExpectColon 7, ExpectValue 8, InArray 9), no other callback,
\* and leaves the slot Idle.
C6_RejectedCharacter == [][C6_Step]_vars

\* {"a":} : the '}' is rejected by ExpectValue with code 8
C6_Witness ==
  /\ calls = Setup \o Feed(<< "{", "\"", "a", "\"", ":", "}" >>)
  /\ Len(log) = 2
  /\ log[2].cb = "onError"
  /\ log[2].num = ERR_PARSE_VALUE
  /\ log[2].at = Len(calls)
  /\ Idle(0)

\* ------------------------------------------------------------------
\* C7
\* ------------------------------------------------------------------
C7_Open(k) == << "{", "\"" >> \o Rep("n", k)

\* C7: a name of exactly MAXNAME characters parses without error and the
\* scalar callback reports all of it; the character that makes the name
\* MAXNAME + 1 long raises error 2 (name too long) and leaves the slot Idle.
C7_NameBoundary ==
  \A i \in Slots :
    AllRegistered(i) =>
      /\ \A k \in 0..MAXNAME :
           fed[i] = C7_Open(k) =>
             /\ Seen(i) = << Cb("onObjectStart", << >>, << >>, 0) >>
             /\ parserData[i].state = STATE_INNAME
      /\ fed[i] = Ser(NameDoc(MAXNAME)) =>
           Seen(i) = << Cb("onObjectStart", << >>, << >>, 0),
                        Cb("onInteger", Rep("n", MAXNAME), << >>, 1),
                        Cb("onObjectComplete", << >>, << >>, 0) >>
      /\ fed[i] = C7_Open(MAXNAME + 1) =>
           /\ Len(Seen(i)) = 2
           /\ SinceMark(i)[2].cb = "onError"
           /\ SinceMark(i)[2].num = ERR_NAMETOOLONG
           /\ calls[SinceMark(i)[2].at] = Eat("n")
           /\ Idle(i)

C7_Witness ==
  /\ fed[0] = Ser(NameDoc(MAXNAME))
  /\ Len(log) = 3
  /\ log[2].cb = "onInteger"
  /\ Len(log[2].name) = MAXNAME

\* ------------------------------------------------------------------
\* C8
\* ------------------------------------------------------------------
\* the text of Nest(d) up to and including its d-th opening brace
C8_Open(d) == SubSeq(Ser(Nest(d)), 1, 5 * (d - 1) + 1)

\* C8: documents nested MAXSTACK deep or less parse without error, with a
\* matching start and complete callback for every level; the opening bracket
\* of level MAXSTACK + 1 raises error 10 (internal error) and the slot is
\* reset when that feed returns.
C8_NestingLimit ==
  \A i \in Slots :
    AllRegistered(i) =>
      /\ \A d \in 1..MAXSTACK :
           /\ fed[i] = C8_Open(d) =>
                \A k \in 1..Len(Seen(i)) : SinceMark(i)[k].cb # "onError"
           /\ fed[i] = Ser(Nest(d)) => Seen(i) = Events(<< >>, Nest(d))
      /\ fed[i] = C8_Open(MAXSTACK + 1) =>
           /\ Seen(i) # << >>
           /\ SinceMark(i)[Len(Seen(i))].cb = "onError"
           /\ SinceMark(i)[Len(Seen(i))].num = ERR_INTERNAL
           /\ \A k \in 1..(Len(Seen(i)) - 1) : SinceMark(i)[k].cb # "onError"
           /\ Idle(i)

\* ------------------------------------------------------------------
\* C9
\* ------------------------------------------------------------------
C9_StartOf(cb) ==
  IF cb = "onObjectComplete" THEN "onObjectStart" ELSE "onArrayStart"

\* every complete callback of evs closes the innermost open start callback
\* and carries its name; an error callback abandons what is open
RECURSIVE C9_Matched(_, _)
C9_Matched(evs, open) ==
  IF evs = << >> THEN TRUE
  ELSE LET e == Head(evs)
       IN  CASE e.cb \in {"onObjectStart", "onArrayStart"} ->
                  C9_Matched(Tail(evs), << << e.cb, e.name >> >> \o open)
             [] e.cb \in {"onObjectComplete", "onArrayComplete"} ->
                  /\ open # << >>
                  /\ Head(open) = << C9_StartOf(e.cb), e.name >>
                  /\ C9_Matched(Tail(evs), Tail(open))
             [] e.cb = "onError" -> C9_Matched(Tail(evs), << >>)
             [] OTHER -> C9_Matched(Tail(evs), open)

\* C9: every object-complete / array-complete callback is invoked with the
\* name passed to the matching object-start / array-start callback.
C9_CompleteNameMatchesStart ==
  \A i \in Slots : C9_Matched(SinceMark(i), << >>)

\* ------------------------------------------------------------------
\* C10
\* ------------------------------------------------------------------
C10_Selects == { "jsonSelectNext", "jsonSelectPrev" }

\* what a call leaves alone
C10_Frame ==
  LET call == calls'[Len(calls')]
  IN  /\ call[1] \in C10_Selects =>
           /\ parserData' = parserData
           /\ log' = log
      /\ ( /\ call[1] \notin C10_Selects
           /\ \A f \in CallbackFields : parserData[parser][f] # "nest" ) =>
           /\ parser' = parser
           /\ \A i \in Slots \ {parser} : parserData'[i] = parserData[i]
           /\ SubSeq(log', 1, Len(log)) = log
           /\ \A k \in (Len(log) + 1)..Len(log') : log'[k].slot = parser

\* {"a":1} on slot 0 interrupted by a document on slot 1
C10_Scenario ==
  \A i \in Slots :
    AllRegistered(i) =>
      /\ fed[i] = T_a1 => Seen(i) = Events(<< >>, D_a1)
      /\ fed[i] = T_b2 => Seen(i) = Events(<< >>, D_b2)

\* C10: jsonSelectNext / jsonSelectPrev change only the active-slot pointer,
\* every other call changes only the active slot, and {"a": on slot 0,
\* {"b":2} on slot 1, then 1} on slot 0 delivers each slot its own callbacks.
C10_SlotsDoNotInterfere == [][C10_Frame]_vars /\ []C10_Scenario

C10_Witness ==
  /\ calls = Setup \o << SelNext >> \o Setup \o << SelPrev >>
               \o Feed(SubSeq(T_a1, 1, 5)) \o << SelNext >> \o Feed(T_b2)
               \o << SelPrev >> \o Feed(SubSeq(T_a1, 6, 7))
  /\ Seen(0) = Events(<< >>, D_a1)
  /\ Seen(1) = Events(<< >>, D_b2)
  /\ parser = 0

\* ------------------------------------------------------------------
\* C11
\* ------------------------------------------------------------------
\* the active slot index is in range and is what jsonGetSelected returns
C11_InRange ==
  /\ parser \in Slots
  /\ Cardinality({ i \in Slots : i = parser }) = 1
  /\ jsonGetSelected(Machine) = parser

C11_Step ==
  LET call == calls'[Len(calls')]
  IN  /\ call = SelNext =>
           parser' = IF parser = MAXPARSERS - 1 THEN parser ELSE parser + 1
      /\ call = SelPrev =>
           parser' = IF parser = 0 THEN parser ELSE parser - 1
      /\ call \notin {SelNext, SelPrev} => parser' = parser

\* C11: the active slot index is always in 0..MAXPARSERS-1 and exactly one
\* slot is active; jsonSelectNext adds one unless the index is MAXPARSERS-1
\* (then it is unchanged), jsonSelectPrev subtracts one unless it is 0 (then
\* it is unchanged), and jsonGetSelected returns the active index.
C11_SelectStaysInPool == [][C11_Step]_vars /\ []C11_InRange

\* select-previous at the first slot, then select-next twice: the second
\* select-next is at the last slot
C11_Witness ==
  /\ calls = << SelPrev, SelNext, SelNext >>
  /\ parser = MAXPARSERS - 1

\* ------------------------------------------------------------------
\* C12
\* ------------------------------------------------------------------
\* a freshly initialized pool with the seven callbacks of slot 0 registered
C12_FreshMachine ==
  [ pd |-> [i \in Slots |->
              [f \in DOMAIN parser_data_t |->
                 IF f \in CallbackFields THEN "cb" ELSE parser_data_t[f]]],
    parser |-> 0, log |-> << >>, at |-> 0 ]

RECURSIVE C12_EatAll(_, _)
C12_EatAll(m, text) ==
  IF text = << >> THEN m ELSE C12_EatAll(jsonEat(m, Head(text)), Tail(text))

\* the callbacks, with their arguments, of a text fed to a fresh slot
C12_Fresh(text) ==
  LET l == C12_EatAll(C12_FreshMachine, text).log
  IN  [k \in 1..Len(l) |-> EvOf(l[k])]

C12_Texts == { T_a1, T_b2, T_blank, Ser(D_esc) }

\* C12: whatever was fed to a slot before, a jsonReset call followed by a
\* well-formed document produces the callbacks, error callbacks with their
\* arguments included, that the document produces on a fresh slot.
C12_ResetForgetsHistory ==
  \A i \in Slots :
    AllRegistered(i) =>
      \A w \in C12_Texts : fed[i] = w => Seen(i) = C12_Fresh(w)

\* ------------------------------------------------------------------
\* C13
\* ------------------------------------------------------------------
C13_NonWhite(text) == SelectSeq(text, LAMBDA c : c \notin {" ", "\t", "\r", "\n"})

\* the last min(MAXERRORBUFFER, Len(s)) characters of s
C13_Tail(s) ==
  IF Len(s) <= MAXERRORBUFFER THEN s
  ELSE SubSeq(s, Len(s) - MAXERRORBUFFER + 1, Len(s))

\* C13: the context string of an error callback is the last
\* min(MAXERRORBUFFER, n) non-whitespace characters fed to the slot since its
\* last reset, in input order and ending with the character that raised the
\* error, whitespace fed in between or not.  (Stated for the first error
\* after initialization or a jsonReset call, where the characters since the
\* last reset are the characters fed since then, and for errors raised by a
\* non-whitespace character.)
C13_ErrorContext ==
  ( /\ calls # << >>
    /\ LastCall[1] = "jsonEat"
    /\ C13_NonWhite(<< LastCall[2] >>) # << >>
    /\ AllRegistered(parser) ) =>
    LET ev == SinceMark(parser)
    IN  ( /\ ev # << >>
          /\ ev[Len(ev)].cb = "onError"
          /\ ev[Len(ev)].at = Len(calls)
          /\ \A k \in 1..(Len(ev) - 1) : ev[k].cb # "onError" )
        => ev[Len(ev)].str = C13_Tail(C13_NonWhite(fed[parser]))

\* ------------------------------------------------------------------
\* C14
\* ------------------------------------------------------------------
\* the feed of c in InName, InString or InNumber appends to name[stack]
\* resp. value[stack] (no error callback, no change of nesting level)
C14_Appends(p, c) ==
  \/ p.state = STATE_INNAME /\ c # "\"" /\ Len(log') = Len(log)
  \/ p.state = STATE_INSTRING /\ Len(log') = Len(log)
  \/ p.state = STATE_INNUM /\ isNum(c) /\ Len(log') = Len(log)

C14_Step ==
  \A c \in Chars :
    calls' = Append(calls, Eat(c)) =>
      LET p == parserData[parser]
          q == parserData'[parser]
      IN  /\ C14_Appends(p, c) =>
               /\ q.errbuf = IF isWhiteSpace(c) THEN p.errbuf
                             ELSE [p.errbuf EXCEPT ![p.errbufIndex] = c]
               /\ \A k \in 0..(MAXSTACK - 1) :
                    k # p.stack => /\ q.name[k] = p.name[k]
                                   /\ q.value[k] = p.value[k]
               /\ Len(q.name[p.stack]) <= MAXNAME - 1
               /\ Len(q.value[p.stack]) <= MAXVALUE - 1

\* C14: appendName writes only to positions 0..MAXNAME-1 of name[stack] and
\* appendValue only to positions 0..MAXVALUE-1 of value[stack], the
\* terminating NUL included: an append leaves room for its NUL and never
\* modifies the name or value buffer of another stack level or the
\* diagnostic ring buffer.
C14_AppendStaysInBuffer == [][C14_Step]_vars

\* ------------------------------------------------------------------
\* C15
\* ------------------------------------------------------------------
\* both depths are inside their arrays and no store used an index outside
C15_InRange ==
  /\ \A i \in Slots :
       /\ parserData[i].stateIndex \in 0..(MAXSTATES - 1)
       /\ parserData[i].stack \in 0..(MAXSTACK - 1)
  /\ \A k \in DOMAIN log : log[k].cb # "outOfRange"

\* the feed of c pushes on a full state stack
C15_PushesState(p, c) ==
  /\ p.stateIndex = MAXSTATES - 1
  /\ \/ p.state = STATE_NONE /\ c \in {"{", "\""}
     \/ p.state \in {STATE_INOBJECT, STATE_INARRAY} /\ c = "\""
     \/ p.state \in {STATE_INOBJECT, STATE_INARRAY} /\ c = "," /\ p.allowComma # 0
     \/ p.state \in {STATE_INNUM, STATE_OUTVALUE} /\ c = ","

\* the feed of c pushes on a full name/value stack
C15_PushesName(p, c) ==
  /\ p.stack = MAXSTACK - 1
  /\ \/ p.state = STATE_NONE /\ c = "{"
     \/ p.state = STATE_TOVALUE /\ c \in {"{", "["}

C15_Step ==
  \A c \in Chars :
    ( /\ calls' = Append(calls, Eat(c))
      /\ parserData[parser].onError # NULL
      /\ \/ C15_PushesState(parserData[parser], c)
         \/ C15_PushesName(parserData[parser], c) )
    => \E k \in (Len(log) + 1)..Len(log') :
         /\ log'[k].cb = "onError"
         /\ log'[k].num = ERR_INTERNAL

\* C15: whenever a call returns 0 <= stateIndex < MAXSTATES and
\* 0 <= stack < MAXSTACK, every store to states[i], name[i] and value[i]
\* during a call uses an index inside the array, and an attempt to push
\* beyond either bound raises the internal error.
C15_StacksInRange == [][C15_Step]_vars /\ []C15_InRange

\* the opening brace of nesting level MAXSTACK and the comma that follows the
\* eighth sibling field were both refused with the internal error
C15_Witness ==
  /\ \/ fed[0] = C8_Open(MAXSTACK)
     \/ fed[0] = SubSeq(Ser(Siblings(MAXSTATES - 1)), 1, 6 * (MAXSTATES - 2) + 1)
  /\ log # << >>
  /\ log[Len(log)].cb = "onError"
  /\ log[Len(log)].num = ERR_INTERNAL
  /\ log[Len(log)].at = Len(calls)

\* ------------------------------------------------------------------
\* C16
\* ------------------------------------------------------------------
\* a flat object of k integer fields up to the last digit of its last field
C16_Fields(k) == SubSeq(Ser(Siblings(k)), 1, Len(Ser(Siblings(k))) - 1)

\* the state-stack depth inside the first field of a flat object
C16_Depth == P(C12_EatAll(C12_FreshMachine, C16_Fields(1))).stateIndex

\* C16: the state-stack depth depends on the nesting depth only and not on
\* the number of sibling fields already parsed: inside the k-th field of a
\* flat object it is what it is inside the first field, and a flat object of
\* comma-separated scalar fields never raises an error.
C16_SiblingsDoNotGrowStack ==
  \A i \in Slots :
    AllRegistered(i) =>
      \A k \in 1..MAXSTATES :
        /\ fed[i] = C16_Fields(k) =>
             /\ parserData[i].stateIndex = C16_Depth
             /\ \A e \in 1..Len(Seen(i)) : SinceMark(i)[e].cb # "onError"
        /\ fed[i] = Ser(Siblings(k)) =>
             \A e \in 1..Len(Seen(i)) : SinceMark(i)[e].cb # "onError"

\* ------------------------------------------------------------------
\* C17
\* ------------------------------------------------------------------
\* A reading of the text fed so far: the nesting depth, whether the text
\* ends inside a string, and the kind of its last token.  Outside any object
\* only '{' opens a level.
C17_Start == [depth |-> 0, mode |-> "out", last |-> "none"]

C17_Token(s, c) ==
  CASE s.mode = "esc" -> [s EXCEPT !.mode = "str"]
    [] s.mode = "str" /\ c = "\\" -> [s EXCEPT !.mode = "esc"]
    [] s.mode = "str" /\ c = "\"" ->
         [s EXCEPT !.mode = "out",
                   !.last = IF s.last = "colon" THEN "scalar" ELSE "name"]
    [] s.mode = "str" /\ c \notin {"\\", "\""} -> s
    [] s.mode = "out" /\ c \in {" ", "\t", "\r", "\n"} -> s
    [] s.mode = "out" /\ c = "\"" -> [s EXCEPT !.mode = "str"]
    [] s.mode = "out" /\ c = "{" ->
         [s EXCEPT !.depth = @ + 1, !.last = "open"]
    [] s.mode = "out" /\ c = "[" ->
         IF s.depth = 0 THEN s
         ELSE [s EXCEPT !.depth = @ + 1, !.last = "open"]
    [] s.mode = "out" /\ c \in {"}", "]"} ->
         IF s.depth = 0 THEN s
         ELSE [s EXCEPT !.depth = @ - 1, !.last = "close"]
    [] s.mode = "out" /\ c = "," -> [s EXCEPT !.last = "comma"]
    [] s.mode = "out" /\ c = ":" -> [s EXCEPT !.last = "colon"]
    [] s.mode = "out" /\ (isNum(c) \/ isSign(c)) -> [s EXCEPT !.last = "scalar"]
    [] OTHER -> [s EXCEPT !.last = "other"]

RECURSIVE C17_Scan(_, _)
C17_Scan(s, text) ==
  IF text = << >> THEN s ELSE C17_Scan(C17_Token(s, Head(text)), Tail(text))

C17_Step ==
  ( /\ calls' = Append(calls, Eat(","))
    /\ AllRegistered(parser)
    /\ \A k \in 1..Len(Seen(parser)) : SinceMark(parser)[k].cb # "onError" )
  => LET s == C17_Scan(C17_Start, fed[parser])
         new == SubSeq(log', Len(log) + 1, Len(log'))
     IN  /\ (s.mode = "out" /\ s.depth >= 1 /\ s.last \in {"open", "comma", "colon"})
              => /\ \E k \in DOMAIN new : new[k].cb = "onError"
                 /\ parserData'[parser].state = STATE_NONE
                 /\ parserData'[parser].stateIndex = 0
                 /\ parserData'[parser].stack = 0
         /\ (s.mode = "out" /\ s.depth >= 1 /\ s.last \in {"scalar", "close"})
              => /\ \A k \in DOMAIN new : new[k].cb # "onError"
                 /\ parserData'[parser].state = STATE_TONAME

\* C17: inside an object or array a ',' that is the first token after '{'
\* or '[', or follows (modulo whitespace) a ',' or a ':', invokes the error
\* callback and resets the slot; a ',' after a completed scalar value or a
\* completed nested object/array is accepted without error and leaves the
\* slot in ExpectName.
C17_CommaRule == [][C17_Step]_vars

\* ------------------------------------------------------------------
\* C18
\* ------------------------------------------------------------------
\* the dispatch of c with at most n re-dispatches: the result of the last
\* pass made, with the request for another pass it returned
RECURSIVE C18_Run(_, _, _)
C18_Run(m, c, n) ==
  LET r == Switch(m, c)
  IN  IF r.again # 0 /\ n > 0 THEN C18_Run(r.m, c, n - 1) ELSE r

\* the machines the passes of that dispatch start from
RECURSIVE C18_Passes(_, _, _)
C18_Passes(m, c, n) ==
  LET r == Switch(m, c)
  IN  << m >> \o (IF r.again # 0 /\ n > 0 THEN C18_Passes(r.m, c, n - 1)
                  ELSE << >>)

C18_Step ==
  \A c \in Chars :
    calls' = Append(calls, Eat(c)) =>
      LET n == parserData[parser].stateIndex + 2
          m == LogCharacter(Machine, c)
          r == C18_Run(m, c, n)
          ps == C18_Passes(m, c, n)
      IN  /\ r.again = 0
          /\ parserData' = r.m.pd
          /\ log' = r.m.log
          /\ \A j \in DOMAIN ps :
               LET q == Switch(ps[j], c)
               IN  /\ (P(ps[j]).state = STATE_OUTVALUE /\ q.again # 0) =>
                        \/ P(q.m).stateIndex = P(ps[j]).stateIndex - 1
                        \/ /\ Len(q.m.log) = Len(ps[j].log) + 1
                           /\ q.m.log[Len(q.m.log)].cb = "onError"
                           /\ P(q.m).state = STATE_NONE
                   /\ (j > 1 /\ P(ps[j]).state \in
                                  {STATE_NONE, STATE_INOBJECT, STATE_INARRAY}) =>
                        q.again = 0

\* C18: a jsonEat call dispatches its character again at most (state-stack
\* depth at entry + 2) times and then returns: a pass in AfterValue that
\* asks for another pass has popped the state stack or reset the slot, and
\* a repeated pass in Idle, InObject or InArray asks for no further pass.
C18_RedispatchBounded == [][C18_Step]_vars

\* the '}' of a flat object of MAXSTATES - 2 fields: InNumber, a pass in
\* AfterValue for every field, then InObject
C18_Witness ==
  /\ fed[0] = Ser(Siblings(MAXSTATES - 2))
  /\ LastCall = Eat("}")
  /\ log # << >>
  /\ log[Len(log)].cb = "onObjectComplete"
  /\ log[Len(log)].at = Len(calls)
  /\ Len(log) = MAXSTATES

\* ------------------------------------------------------------------
\* C19
\* ------------------------------------------------------------------
\* a callback of slot 0 parses the embedded document on slot 1; nothing else
\* was done to either slot
C19_Applies ==
  /\ parser = 0
  /\ \A f \in CallbackFields : parserData[0][f] \in {"cb", "nest"}
  /\ \E f \in CallbackFields : parserData[0][f] = "nest"
  /\ \A f \in CallbackFields : parserData[1][f] = "cb"
  /\ \A i \in Slots : mark[i] = 0
  /\ fed[1] = << >>

\* the callbacks of the run in which the callbacks of slot 0 do nothing,
\* each nesting one followed by the callbacks of the embedded document
RECURSIVE C19_Interleaved(_)
C19_Interleaved(evs) ==
  IF evs = << >> THEN << >>
  ELSE LET e == Head(evs)
           inner == C12_Fresh(Embedded)
       IN  << << 0, e >> >>
           \o (IF parserData[0][e[1]] = "nest"
                 THEN [k \in 1..Len(inner) |-> << 1, inner[k] >>]
                 ELSE << >>)
           \o C19_Interleaved(Tail(evs))

\* C19: when a callback of slot 0 selects the next slot, resets it, feeds it
\* a complete document and selects the previous slot before it returns, the
\* rest of the outer jsonEat works on slot 0: the state of slot 0 after every
\* outer jsonEat and all its callbacks are those of the run in which the
\* callback does nothing, and slot 1 delivers the callbacks of its document.
C19_NestedParseTransparent ==
  C19_Applies =>
    LET ref == C12_EatAll(C12_FreshMachine, fed[0])
    IN  /\ [k \in 1..Len(log) |-> << log[k].slot, EvOf(log[k]) >>]
             = C19_Interleaved([k \in 1..Len(ref.log) |-> EvOf(ref.log[k])])
        /\ \A f \in DOMAIN parser_data_t \ CallbackFields :
             parserData[0][f] = ref.pd[0][f]

\* {"a":1} on slot 0 with a nesting integer-value callback
C19_Witness ==
  /\ C19_Applies
  /\ parserData[0].onInteger = "nest"
  /\ fed[0] = T_a1
  /\ Len(log) = 6
  /\ log[2].cb = "onInteger" /\ log[2].slot = 0
  /\ log[4].cb = "onInteger" /\ log[4].slot = 1 /\ log[4].num = 2
  /\ log[6].cb = "onObjectComplete" /\ log[6].slot = 0

\* ------------------------------------------------------------------
\* C20
\* ------------------------------------------------------------------
\* the callback field a registration function sets
C20_Field(setter) ==
  CASE setter = "jsonSetOnError" -> "onError"
    [] setter = "jsonSetOnObjectStart" -> "onObjectStart"
    [] setter = "jsonSetOnObjectComplete" -> "onObjectComplete"
    [] setter = "jsonSetOnArrayStart" -> "onArrayStart"
    [] setter = "jsonSetOnArrayComplete" -> "onArrayComplete"
    [] setter = "jsonSetOnString" -> "onString"
    [] setter = "jsonSetOnInteger" -> "onInteger"

C20_Setters ==
  { "jsonSetOnError", "jsonSetOnObjectStart", "jsonSetOnObjectComplete",
    "jsonSetOnArrayStart", "jsonSetOnArrayComplete", "jsonSetOnString",
    "jsonSetOnInteger" }

C20_Step ==
  LET call == calls'[Len(calls')]
  IN  /\ call[1] \notin C20_Setters =>
           \A i \in Slots : \A f \in CallbackFields :
             parserData'[i][f] = parserData[i][f]
      /\ call[1] \in C20_Setters =>
           /\ parserData' =
                [parserData EXCEPT ![parser][C20_Field(call[1])] = call[2]]
           /\ parser' = parser
           /\ log' = log

\* a document fed after an error, and after a jsonReset call in the middle
\* of another document, is reported to the callbacks registered before
C20_StillInvoked ==
  /\ (AllRegistered(0) /\ fed[0] = T_novalue \o T_a1) =>
       Seen(0) = << Cb("onObjectStart", << >>, << >>, 0),
                    Cb("onError", << >>, T_novalue, ERR_PARSE_VALUE) >>
                 \o Events(<< >>, D_a1)
  /\ (AllRegistered(0) /\ mark[0] > 0 /\ fed[0] = T_a1) =>
       Seen(0) = Events(<< >>, D_a1)

\* C20: jsonReset and the error recovery of jsonError leave the seven
\* callbacks of every slot unchanged, the callbacks registered before a
\* reset or an error are the ones invoked for the next document, and a
\* registration function changes its own callback field of the active slot
\* and nothing else.
C20_CallbacksSurviveReset == [][C20_Step]_vars /\ []C20_StillInvoked

\* {"a":} raised an error, {"a":1} was then reported in full
C20_Witness ==
  /\ calls = Setup \o Feed(T_novalue) \o Feed(T_a1)
  /\ Len(log) = 5
  /\ log[2].cb = "onError"
  /\ log[5].cb = "onObjectComplete"

====
